---- MODULE Spec2Model ----
(***************************************************************************)
(* Model of the stock-analytics data pipeline                              *)
(*   packages/data-pipeline/src/data_pipeline/validators/validate_data.py  *)
(*   packages/data-pipeline/src/data_pipeline/fetchers/fetch_yahoo.py      *)
(*   packages/data-pipeline/src/data_pipeline/fetch_data.py                *)
(*   packages/data-pipeline/src/data_pipeline/storage/parquet_handler.py   *)
(*   packages/data-pipeline/src/data_pipeline/fetchers/utils.py            *)
(*   packages/data-pipeline/src/data_pipeline/models/asset_info.py         *)
(*   packages/data-pipeline/utils/validate_symbol.py                       *)
(*                                                                         *)
(* A table (polars DataFrame) is a record [columns, rows]: the set of its  *)
(* column names and the sequence of its rows, each row a function from     *)
(* the column names to values.  Prices, volumes and timestamps are         *)
(* integers; a missing value (polars null) is the value Null.              *)
(***************************************************************************)
EXTENDS Integers, Sequences, FiniteSets, TLC

VARIABLES
    input,      \* the table handed to validate_and_clean_data
    output,     \* what validate_and_clean_data returned for input
    output2,    \* what validate_and_clean_data returned for output
    cpc,        \* "raw" -> "cleaned" -> "recleaned"
    impl,       \* the module whose functions run: "fetch_yahoo" or "fetch_data"
    cfg,        \* DEFAULT_CONFIG merged with the caller's overrides
    batch,      \* the symbols to fetch, each with its asset type, in loop order
    idx,        \* position in batch of the symbol being processed
    pc,         \* "fetch" (in the retry loop), "process", "done"
    attempt,    \* the retry loop's attempt of the current symbol, from 0
    outcomes,   \* what the provider answered to each request for this symbol
    sleeps,     \* the time.sleep calls made for this symbol, in order
    fetched,    \* what _fetch_single_symbol_with_retry returned
    results,    \* the mapping fetch_historical_data accumulates
    disk,       \* the directories and the partition files on disk
    log,        \* per processed symbol: what was fetched and what failed
    writes,     \* the save_data_to_parquet calls made on the store, in order
    loaded,     \* the last load_data_from_parquet call and what it returned
    asked,      \* the symbols handed to fetch_and_validate_data, in order
    answers,    \* what the provider answers to the lookup of each of them
    verdict,    \* what validate_symbols returned: the valid and the invalid
    infoSymbols,    \* the symbols handed to fetch_asset_info
    infoAnswers,    \* what the provider answers to the lookup of each
    infoOut     \* what fetch_asset_info returned

cleanVars == <<input, output, output2, cpc>>
fetchVars == <<impl, cfg, batch, idx, pc, attempt, outcomes, sleeps, fetched>>
batchVars == <<results, log>>
storeVars == <<writes, loaded>>
validVars == <<asked, answers, verdict>>
infoVars == <<infoSymbols, infoAnswers, infoOut>>
vars == <<input, output, output2, cpc, impl, cfg, batch, idx, pc, attempt,
          outcomes, sleeps, fetched, results, disk, log, writes, loaded,
          asked, answers, verdict, infoSymbols, infoAnswers, infoOut>>

(***************************************************************************)
(* Bounds of the model                                                     *)
(***************************************************************************)
\* longest generated series (12 rows are needed before a 3-sigma outlier
\* can exist at all: one outlier among m changes has z = (m-1)/sqrt(m))
MaxLen == 12
\* how many rows of a generated series close at 2 instead of 1
MaxSpikes == 1

(***************************************************************************)
(* Values                                                                  *)
(***************************************************************************)
\* polars null
Null == -999
\* the three values a polars Boolean column holds
FlagTrue == "true"
FlagFalse == "false"
FlagNull == "null"

BaseColumns == {"timestamp", "open", "high", "low", "close", "volume"}

RemoveAt(s, i) == SubSeq(s, 1, i - 1) \o SubSeq(s, i + 1, Len(s))

RECURSIVE Concat(_)
Concat(ss) == IF ss = <<>> THEN <<>> ELSE Head(ss) \o Concat(Tail(ss))

\* DataFrame.with_columns(expr.alias(name)): add or overwrite one column;
\* values[i] is the new value of row i
with_columns(data, name, values) ==
    [columns |-> data.columns \cup {name},
     rows |-> [i \in 1..Len(data.rows) |->
                 [c \in data.columns \cup {name} |->
                     IF c = name THEN values[i] ELSE data.rows[i][c]]]]

\* pl.lit(v): the same value on every row
lit(data, v) == [i \in 1..Len(data.rows) |-> v]

\* DataFrame.drop(name)
drop(data, name) ==
    [columns |-> data.columns \ {name},
     rows |-> [i \in 1..Len(data.rows) |->
                 [c \in data.columns \ {name} |-> data.rows[i][c]]]]

\* DataFrame.filter(mask): keeps the rows where the mask is true, in order
\* (a comparison with null is null, and the row is dropped)
filter(data, mask) ==
    LET kept == SelectSeq([i \in 1..Len(data.rows) |-> i], LAMBDA i : mask[i])
    IN  [columns |-> data.columns,
         rows |-> [k \in 1..Len(kept) |-> data.rows[kept[k]]]]

\* DataFrame.drop_nulls(subset)
drop_nulls(data, subset) ==
    filter(data, [i \in 1..Len(data.rows) |->
                    \A c \in subset : data.rows[i][c] # Null])

\* polars comparisons: null compares to nothing
Gt(a, b) == a # Null /\ b # Null /\ a > b
Ge(a, b) == a # Null /\ b # Null /\ a >= b
Le(a, b) == a # Null /\ b # Null /\ a <= b

(***************************************************************************)
(* validate_data.py: the drop stages                                       *)
(***************************************************************************)
critical_columns == {"open", "high", "low", "close", "volume"}
price_columns == <<"open", "high", "low", "close", "adj_close">>

\* lines 27-29: for col in price_columns: if col in data.columns: filter(col > 0)
RECURSIVE filter_prices(_, _)
filter_prices(data, k) ==
    IF k > Len(price_columns) THEN data
    ELSE filter_prices(
            IF price_columns[k] \in data.columns
            THEN filter(data, [i \in 1..Len(data.rows) |->
                                 Gt(data.rows[i][price_columns[k]], 0)])
            ELSE data,
            k + 1)

\* line 32
filter_volume(data) ==
    filter(data, [i \in 1..Len(data.rows) |-> Ge(data.rows[i]["volume"], 0)])

\* filter_ohlc without the comparison of high with close
filter_ohlc_no_high_close(data) ==
    filter(data, [i \in 1..Len(data.rows) |->
        LET r == data.rows[i] IN
        /\ Ge(r["high"], r["low"])
        /\ Ge(r["high"], r["open"])
        /\ Le(r["low"], r["open"])
        /\ Le(r["low"], r["close"])])

\* lines 35-41
filter_ohlc(data) ==
    filter(data, [i \in 1..Len(data.rows) |->
        LET r == data.rows[i] IN
        /\ Ge(r["high"], r["low"])
        /\ Ge(r["high"], r["open"])
        /\ Ge(r["high"], r["close"])
        /\ Le(r["low"], r["open"])
        /\ Le(r["low"], r["close"])])

\* lines 21-41: the four drop stages in the code's order
drop_stages(data) ==
    filter_ohlc(filter_volume(filter_prices(drop_nulls(data, critical_columns), 1)))

(***************************************************************************)
(* validate_data.py: detect_and_flag_anomalies                             *)
(*                                                                         *)
(* The percentage changes are rationals.  They are kept exact: with        *)
(* den = the product of the closes, change i = price_change(i) / den.      *)
(***************************************************************************)
\* line 67: "Need sufficient data"
MinRows == 10
\* line 88: "beyond 3 standard deviations"
Sigmas == 3

RECURSIVE SeqSum(_)
SeqSum(s) == IF s = <<>> THEN 0 ELSE Head(s) + SeqSum(Tail(s))

RECURSIVE close_product(_)
close_product(rows) ==
    IF rows = <<>> THEN 1
    ELSE (IF Head(rows)["close"] = Null \/ Head(rows)["close"] = 0
          THEN 1 ELSE Head(rows)["close"]) * close_product(Tail(rows))

\* line 72: pl.col('close').pct_change(), row i against row i - 1 in the
\* order the rows stand in; null on the first row.  The numerators, over
\* close_product(rows).  (The closes that reach it are > 0: line 29.)
pct_change(rows) ==
    LET den == close_product(rows)
    IN  [i \in 1..Len(rows) |->
            IF i = 1 \/ rows[i]["close"] = Null \/ rows[i - 1]["close"] = Null
                     \/ rows[i - 1]["close"] = 0
            THEN Null
            ELSE (rows[i]["close"] - rows[i - 1]["close"])
                    * (den \div rows[i - 1]["close"])]

\* the number of changes that are not null: std() and mean() skip nulls
count(changes) == Cardinality({i \in 1..Len(changes) : changes[i] # Null})

\* m * den * (change i - mean), with m = count(changes); 0 where null
deviations(changes) ==
    LET m == count(changes)
        total == SeqSum([i \in 1..Len(changes) |->
                           IF changes[i] = Null THEN 0 ELSE changes[i]])
    IN  [i \in 1..Len(changes) |->
            IF changes[i] = Null THEN 0 ELSE m * changes[i] - total]

\* lines 77-78, 84: std() (ddof = 1) is None under two values, mean() under one
stats_undefined(changes) == count(changes) < 2

\* lines 88-90: (price_change - change_mean).abs() > 3 * change_std, which is
\*   |change - mean|^2 > 9 * std^2
\*   (m - 1) * deviation^2 > 9 * (sum of the squared deviations)
\* and null where price_change is null
anomaly_flags(changes) ==
    LET m == count(changes)
        dev == deviations(changes)
        squares == SeqSum([i \in 1..Len(changes) |-> dev[i] * dev[i]])
    IN  [i \in 1..Len(changes) |->
            IF changes[i] = Null THEN FlagNull
            ELSE IF (m - 1) * dev[i] * dev[i] > Sigmas * Sigmas * squares
                 THEN FlagTrue
                 ELSE FlagFalse]

\* detect_and_flag_anomalies that forgets line 100, the drop of price_change
detect_keeping_price_change(data) ==
    IF Len(data.rows) < MinRows
    THEN with_columns(data, "is_anomaly", lit(data, FlagFalse))
    ELSE LET changes == pct_change(data.rows)
             flags == anomaly_flags(changes)
         IN  with_columns(
                 with_columns(data, "price_change", changes),
                 "is_anomaly", flags)

\* lines 56-102
detect_and_flag_anomalies(data) ==
    IF Len(data.rows) < MinRows
    THEN with_columns(data, "is_anomaly", lit(data, FlagFalse))
    ELSE LET changes == pct_change(data.rows)
             flags == anomaly_flags(changes)
         IN  IF stats_undefined(changes)
             THEN with_columns(
                     with_columns(data, "price_change", changes),
                     "is_anomaly", lit(data, FlagFalse))
             ELSE drop(
                     with_columns(
                         with_columns(data, "price_change", changes),
                         "is_anomaly", flags),
                     "price_change")

(***************************************************************************)
(* validate_data.py: the sort and the whole of validate_and_clean_data     *)
(***************************************************************************)
\* a sort that leaves the rows as they stand
sort_nothing(rows) == {rows}

\* line 47: data.sort('timestamp').  DataFrame.sort does not keep the order
\* of equal keys (maintain_order = False): every ascending arrangement of
\* the rows is a possible outcome.
RECURSIVE sort(_)
sort(rows) ==
    IF rows = <<>> THEN {<<>>}
    ELSE LET least == {i \in 1..Len(rows) :
                        \A j \in 1..Len(rows) :
                            rows[i]["timestamp"] <= rows[j]["timestamp"]}
         IN  UNION {{<<rows[i]>> \o rest : rest \in sort(RemoveAt(rows, i))}
                    : i \in least}

\* validate_and_clean_data that flags the anomalies before the drop stages
validate_flagging_first(data) ==
    LET flagged == drop_stages(detect_and_flag_anomalies(data))
    IN  {[columns |-> flagged.columns, rows |-> s] : s \in sort(flagged.rows)}

\* lines 7-53: the set of tables the call can return
validate_and_clean_data(data) ==
    LET flagged == detect_and_flag_anomalies(drop_stages(data))
    IN  {[columns |-> flagged.columns, rows |-> s] : s \in sort(flagged.rows)}

(***************************************************************************)
(* The input series of the cleaning checks                                 *)
(***************************************************************************)
PriceValues == {Null, 0, 1, 2}
VolumeValues == {Null, -1, 0}
AdjValues == {Null, 0, 1}

\* one-row tables over every combination of values, with and without the
\* adj_close column
RichTables ==
    {[columns |-> BaseColumns \cup {"adj_close"},
      rows |-> <<[timestamp |-> 1, open |-> o, high |-> h, low |-> l,
                  close |-> c, volume |-> v, adj_close |-> a]>>]
        : o \in PriceValues, h \in PriceValues, l \in PriceValues,
          c \in PriceValues, v \in VolumeValues, a \in AdjValues}
    \cup
    {[columns |-> BaseColumns,
      rows |-> <<[timestamp |-> 1, open |-> o, high |-> h, low |-> l,
                  close |-> c, volume |-> v]>>]
        : o \in PriceValues, h \in PriceValues, l \in PriceValues,
          c \in PriceValues, v \in VolumeValues}

\* the orders the timestamps of a long series come in
TsModes == {"asc", "desc", "rot", "dup"}
LongTimestamp(mode, n, i) ==
    CASE mode = "asc" -> i
      [] mode = "desc" -> n + 1 - i
      [] mode = "rot" -> IF i = 1 THEN n ELSE i - 1
      [] mode = "dup" -> IF i = 1 THEN 1 ELSE i - 1

\* a long series has at most one invalid row, at either end
BadKinds == {"null_close", "high_lt_low"}
BadChoices(n) ==
    {[pos |-> 0, kind |-> "none"]}
        \cup {[pos |-> p, kind |-> k] : p \in {1, n} \ {0}, k \in BadKinds}

LongRow(mode, n, spikes, bad, i) ==
    LET c == IF i \in spikes THEN 2 ELSE 1
    IN  [timestamp |-> LongTimestamp(mode, n, i),
         open |-> 1,
         high |-> IF bad.pos = i /\ bad.kind = "high_lt_low" THEN 0 ELSE 2,
         low |-> 1,
         close |-> IF bad.pos = i /\ bad.kind = "null_close" THEN Null ELSE c,
         volume |-> 0,
         adj_close |-> c]

LongTables ==
    UNION {
        {[columns |-> BaseColumns \cup {"adj_close"},
          rows |-> [i \in 1..n |-> LongRow(mode, n, spikes, bad, i)]]
            : mode \in TsModes,
              spikes \in {S \in SUBSET (1..n) : Cardinality(S) <= MaxSpikes},
              bad \in BadChoices(n)}
        : n \in 0..MaxLen}

RawTables == RichTables \cup LongTables

NoTable == [columns |-> {}, rows |-> <<>>]
\* Python's None
None == [none |-> TRUE]

(***************************************************************************)
(* fetch_yahoo.py / fetch_data.py: _fetch_single_symbol_with_retry         *)
(*                                                                         *)
(* The provider answers a request with an exception, an empty frame or a   *)
(* frame under the provider's column names.  Sleeps are counted in units   *)
(* of retry_delay.                                                         *)
(***************************************************************************)
DEFAULT_CONFIG ==
    [max_retries |-> 3, retry_delay |-> 1, validate_data |-> TRUE,
     output_dir |-> <<"data/raw">>, save_to_parquet |-> TRUE]

RECURSIVE Pow2(_)
Pow2(n) == IF n = 0 THEN 1 ELSE 2 * Pow2(n - 1)

\* fetch_yahoo.py lines 171-180
column_mapping_yahoo ==
    [Date |-> "timestamp", Datetime |-> "timestamp", Open |-> "open",
     High |-> "high", Low |-> "low", Close |-> "close", Volume |-> "volume"]
        @@ ("Adj Close" :> "adj_close")

\* fetch_data.py lines 173-184
column_mapping_legacy ==
    column_mapping_yahoo
        @@ ("Dividends" :> "dividends") @@ ("Stock Splits" :> "stock_splits")

\* the renaming loop: a column the mapping names gets its new name
rename(data, mapping) ==
    LET new(c) == IF c \in DOMAIN mapping THEN mapping[c] ELSE c
        columns == {new(c) : c \in data.columns}
    IN  [columns |-> columns,
         rows |-> [i \in 1..Len(data.rows) |->
                     [n \in columns |->
                         data.rows[i][CHOOSE c \in data.columns : new(c) = n]]]]

required_cols == <<"timestamp", "open", "high", "low", "close", "volume">>
missing_cols(data) ==
    SelectSeq(required_cols, LAMBDA c : c \notin data.columns)

\* fetch_yahoo.py lines 168-208: the frame made into the returned table
normalize_yahoo(hist, symbol) ==
    LET df == with_columns(rename(hist, column_mapping_yahoo), "symbol",
                           lit(hist, symbol))
    IN  IF missing_cols(df) # <<>> THEN None ELSE df

\* fetch_data.py lines 198-204: the optional columns filled in
backfill(data) ==
    LET a == IF "adj_close" \notin data.columns
             THEN with_columns(data, "adj_close",
                               [i \in 1..Len(data.rows) |-> data.rows[i]["close"]])
             ELSE data
        d == IF "dividends" \notin a.columns
             THEN with_columns(a, "dividends", lit(a, 0)) ELSE a
    IN  IF "stock_splits" \notin d.columns
        THEN with_columns(d, "stock_splits", lit(d, 0)) ELSE d

\* fetch_data.py lines 165-206
normalize_legacy(hist, symbol) ==
    LET df == rename(with_columns(hist, "symbol", lit(hist, symbol)),
                     column_mapping_legacy)
    IN  IF missing_cols(df) # <<>> THEN None ELSE backfill(df)

\* One pass of the retry loop.  done: the function returns value; otherwise
\* it sleeps (sleep holds the duration) and goes to the next attempt.
Return(value) == [done |-> TRUE, value |-> value, sleep |-> <<>>]
Retry(duration) == [done |-> FALSE, value |-> None, sleep |-> <<duration>>]

\* a retry loop that treats missing required columns as one more failure
\* to retry after a backoff
attempt_retrying_schema(config, symbol, n, response) ==
    LET table == IF response.kind = "frame"
                 THEN normalize_yahoo(response.frame, symbol) ELSE None
    IN  IF table # None THEN Return(table)
        ELSE IF n < config.max_retries - 1
             THEN Retry(config.retry_delay * Pow2(n))
             ELSE Return(None)

\* fetch_yahoo.py lines 150-216
attempt_yahoo(config, symbol, n, response) ==
    CASE response.kind = "empty" ->
            IF n < config.max_retries - 1
            THEN Retry(config.retry_delay)
            ELSE Return(None)
      [] response.kind = "frame" ->
            Return(normalize_yahoo(response.frame, symbol))
      [] response.kind = "exception" ->
            IF n < config.max_retries - 1
            THEN Retry(config.retry_delay * Pow2(n))
            ELSE Return(None)

\* fetch_data.py lines 145-214
attempt_legacy(config, symbol, n, response) ==
    CASE response.kind = "empty" -> Return(None)
      [] response.kind = "frame" ->
            Return(normalize_legacy(response.frame, symbol))
      [] response.kind = "exception" ->
            IF n < config.max_retries - 1
            THEN Retry(config.retry_delay * Pow2(n))
            ELSE Return(None)

fetch_single_symbol_attempt(module, config, symbol, n, response) ==
    IF module = "fetch_yahoo"
    THEN attempt_yahoo(config, symbol, n, response)
    ELSE attempt_legacy(config, symbol, n, response)

(***************************************************************************)
(* parquet_handler.py                                                      *)
(*                                                                         *)
(* A directory is the sequence of its path components.  The disk is the    *)
(* set of directories that exist and the partition files: a function from  *)
(* [dir, symbol, year], the file dir/symbol_year.parquet, to the table in  *)
(* it.                                                                     *)
(***************************************************************************)
EpochYear == 2022
DaysPerYear == 365
\* line 32: pl.col('timestamp').dt.year(), for the days of 2022 and 2023
Year(t) == EpochYear + (t \div DaysPerYear)

EmptyDisk == [dirs |-> {}, files |-> <<>>]

\* Path.mkdir(parents=True, exist_ok=True)
mkdir_parents(dirs, path) == dirs \cup {SubSeq(path, 1, k) : k \in 1..Len(path)}

RECURSIVE SortedSeq(_)
SortedSeq(S) ==
    IF S = {} THEN <<>>
    ELSE LET least == CHOOSE x \in S : \A y \in S : x <= y
         IN  <<least>> \o SortedSeq(S \ {least})

\* a year list that stops after the earliest year
years_of_first(data) ==
    LET all == SortedSeq({Year(data.rows[i]["timestamp"])
                            : i \in 1..Len(data.rows)})
    IN  IF all = <<>> THEN <<>> ELSE <<all[1]>>

\* lines 31-33: the distinct years of the series, ascending
years_of(data) ==
    SortedSeq({Year(data.rows[i]["timestamp"]) : i \in 1..Len(data.rows)})

\* a partition that holds the whole series
year_data_unfiltered(data, year) == data

\* lines 39-41
year_data(data, year) ==
    filter(data, [i \in 1..Len(data.rows) |->
                    Year(data.rows[i]["timestamp"]) = year])

\* what a write_parquet that raised after it had opened its file leaves at
\* the path: a file that is no parquet file
Truncated == [truncated |-> TRUE]

\* line 51: write_parquet writes to the partition's own path, so that the
\* failing write of a call leaves the path as it was or, when it had
\* begun to write (torn), with a truncated file
torn_files(symbol_dir, symbol, years, failAt, torn) ==
    IF failAt > 0 /\ torn
    THEN {[dir |-> symbol_dir, symbol |-> symbol, year |-> years[failAt]]}
    ELSE {}

\* a write that leaves the files alone unless every partition was written
save_all_or_nothing(d, data, symbol, output_dir, failAt, torn) ==
    LET years == years_of(data)
        symbol_dir == output_dir \o <<symbol>>
        written == IF failAt # 0 THEN {}
                   ELSE {[dir |-> symbol_dir, symbol |-> symbol,
                          year |-> years[k]] : k \in 1..Len(years)}
    IN  [dirs |-> mkdir_parents(d.dirs, output_dir)
                    \cup (IF years = <<>> THEN {} ELSE {symbol_dir}),
         files |-> [f \in DOMAIN d.files \cup written |->
                        IF f \in written THEN year_data(data, f.year)
                        ELSE d.files[f]]]

\* a write that appends the rows of a year to the partition file there is
save_appending(d, data, symbol, output_dir, failAt, torn) ==
    LET years == years_of(data)
        done == IF failAt = 0 THEN Len(years) ELSE failAt - 1
        symbol_dir == output_dir \o <<symbol>>
        written == {[dir |-> symbol_dir, symbol |-> symbol, year |-> years[k]]
                        : k \in 1..done}
        failed == torn_files(symbol_dir, symbol, years, failAt, torn)
    IN  [dirs |-> mkdir_parents(d.dirs, output_dir)
                    \cup (IF years = <<>> THEN {} ELSE {symbol_dir}),
         files |-> [f \in DOMAIN d.files \cup written \cup failed |->
                        IF f \in failed THEN Truncated
                        ELSE IF f \notin written THEN d.files[f]
                        ELSE IF f \in DOMAIN d.files /\ d.files[f] # Truncated
                             THEN [columns |-> year_data(data, f.year).columns,
                                   rows |-> d.files[f].rows
                                              \o year_data(data, f.year).rows]
                             ELSE year_data(data, f.year)]]

\* lines 10-55.  failAt = 0: no I/O error; failAt = k > 0: the k-th
\* write_parquet of the call raises, which ends the loop (line 54); torn
\* tells whether the failed write had begun to write its file.
save_data_to_parquet(d, data, symbol, output_dir, failAt, torn) ==
    LET years == years_of(data)
        done == IF failAt = 0 THEN Len(years) ELSE failAt - 1
        symbol_dir == output_dir \o <<symbol>>
        written == {[dir |-> symbol_dir, symbol |-> symbol, year |-> years[k]]
                        : k \in 1..done}
        failed == torn_files(symbol_dir, symbol, years, failAt, torn)
    IN  [dirs |-> mkdir_parents(d.dirs, output_dir)
                    \cup (IF years = <<>> THEN {} ELSE {symbol_dir}),
         files |-> [f \in DOMAIN d.files \cup written \cup failed |->
                        IF f \in written THEN year_data(data, f.year)
                        ELSE IF f \in failed THEN Truncated
                        ELSE d.files[f]]]

\* lines 58-107: the set of values the call can return.  year = 0 stands
\* for the falsy year (None).  pl.concat raises when the columns of the
\* files differ and read_parquet raises on a truncated file, which line 105
\* turns into None.
load_data_from_parquet(d, symbol, asset_type, year, output_dir) ==
    LET base_path == output_dir \o <<asset_type, symbol>>
        filepath == [dir |-> base_path, symbol |-> symbol, year |-> year]
        parquet_files == {f \in DOMAIN d.files :
                            f.dir = base_path /\ f.symbol = symbol}
        first == CHOOSE f \in parquet_files : TRUE
        ordered == SortedSeq({f.year : f \in parquet_files})
        combined == [k \in 1..Len(ordered) |->
                        d.files[[dir |-> base_path, symbol |-> symbol,
                                 year |-> ordered[k]]].rows]
    IN  IF base_path \notin d.dirs THEN {None}
        ELSE IF year # 0
             THEN (IF filepath \in DOMAIN d.files
                        /\ d.files[filepath] # Truncated
                   THEN {d.files[filepath]} ELSE {None})
             ELSE IF parquet_files = {} THEN {None}
                  ELSE IF \E f \in parquet_files : d.files[f] = Truncated
                       THEN {None}
                  ELSE IF \E f \in parquet_files :
                            d.files[f].columns # d.files[first].columns
                       THEN {None}
                       ELSE {[columns |-> d.files[first].columns, rows |-> r]
                                : r \in sort(Concat(combined))}

(***************************************************************************)
(* fetch_yahoo.py / fetch_data.py: fetch_historical_data                   *)
(***************************************************************************)
\* fetch_yahoo.py line 121 / fetch_data.py line 119
save_dir(module, config, entry) ==
    IF module = "fetch_yahoo"
    THEN config.output_dir \o <<entry.asset_type>>
    ELSE config.output_dir

Put(f, k, v) == [x \in DOMAIN f \cup {k} |-> IF x = k THEN v ELSE f[x]]

(***************************************************************************)
(* The provider's answers                                                  *)
(***************************************************************************)
\* day numbers; day 0 is 2022-01-01
Dec31 == DaysPerYear - 1
Jan01 == DaysPerYear

ProviderRow(t, o, h, l, c) ==
    [Date |-> t, Open |-> o, High |-> h, Low |-> l, Close |-> c, Volume |-> 0]
        @@ ("Dividends" :> 0) @@ ("Stock Splits" :> 0)

ProviderColumns ==
    {"Date", "Open", "High", "Low", "Close", "Volume", "Dividends", "Stock Splits"}

Project(rows, columns) ==
    [i \in 1..Len(rows) |-> [c \in columns |-> rows[i][c]]]

\* two valid rows in two calendar years
GoodRows == <<ProviderRow(Dec31, 1, 2, 1, 1), ProviderRow(Jan01, 1, 2, 1, 2)>>
\* no valid row
BadRows == <<ProviderRow(Dec31, 1, 0, 1, 1)>>

GoodFrame == [columns |-> ProviderColumns, rows |-> GoodRows]
BadFrame == [columns |-> ProviderColumns, rows |-> BadRows]
\* the six required columns and nothing else
BareFrame ==
    [columns |-> ProviderColumns \ {"Dividends", "Stock Splits"},
     rows |-> Project(GoodRows, ProviderColumns \ {"Dividends", "Stock Splits"})]
\* with the provider's Adj Close
AdjFrame ==
    with_columns(GoodFrame, "Adj Close",
                 [i \in 1..Len(GoodRows) |-> GoodRows[i]["Close"]])
\* intraday: the index column is Datetime
DatetimeFrame == rename(GoodFrame, [Date |-> "Datetime"])
\* no Volume column
NoVolumeFrame ==
    [columns |-> ProviderColumns \ {"Volume"},
     rows |-> Project(GoodRows, ProviderColumns \ {"Volume"})]

Exception == [kind |-> "exception"]
Empty == [kind |-> "empty"]
Frame(f) == [kind |-> "frame", frame |-> f]

\* a frame with the columns the required ones are made from
WellFormed(f) ==
    /\ {"Open", "High", "Low", "Close", "Volume"} \subseteq f.columns
    /\ f.columns \cap {"Date", "Datetime"} # {}

\* what an answer counts as: "exception", "empty", "schema" or "table"
Outcome(response) ==
    IF response.kind = "frame"
    THEN (IF WellFormed(response.frame) THEN "table" ELSE "schema")
    ELSE response.kind

FetchResponses ==
    {Exception, Empty} \cup
    {Frame(f) : f \in {GoodFrame, BadFrame, BareFrame, AdjFrame,
                       DatetimeFrame, NoVolumeFrame}}

(***************************************************************************)
(* Bounds and inputs of the fetch, batch and store checks                  *)
(***************************************************************************)
\* the largest max_retries a fetch is configured with
MaxRetries == 3
\* the longest batch
MaxBatch == 2
\* the most save_data_to_parquet calls on the store
MaxWrites == 2

Modules == {"fetch_yahoo", "fetch_data"}

Entry(t, sym) == [asset_type |-> t, symbol |-> sym]
Entries == {Entry("stocks", "AAPL"), Entry("crypto", "BTC-USD")}

\* the symbol lists of a dict of asset types, flattened in loop order: the
\* symbols of one asset type stand together
Batches ==
    {b \in UNION {[1..n -> Entries] : n \in 0..MaxBatch} :
        \A i \in 1..Len(b) : \A j \in i..Len(b) : \A k \in i..j :
            b[i].asset_type = b[j].asset_type => b[k].asset_type = b[i].asset_type}

BatchResponses ==
    {Exception, Empty} \cup
    {Frame(f) : f \in {GoodFrame, BadFrame, NoVolumeFrame}}

StoreRow(t, c) ==
    [timestamp |-> t, open |-> 1, high |-> 2, low |-> 1, close |-> c,
     volume |-> 0, is_anomaly |-> FlagFalse]
StoreColumns == BaseColumns \cup {"is_anomaly"}
\* the last day of 2022 and the first of 2023
TwoYearSeries ==
    [columns |-> StoreColumns,
     rows |-> <<StoreRow(Dec31, 1), StoreRow(Jan01, 2)>>]
\* one row of 2022
OneRowSeries == [columns |-> StoreColumns, rows |-> <<StoreRow(Dec31 - 1, 2)>>]
\* out of timestamp order, with one row twice
UnsortedSeries ==
    [columns |-> StoreColumns,
     rows |-> <<StoreRow(Jan01 + 1, 1), StoreRow(Dec31, 2), StoreRow(Jan01 + 1, 1)>>]
\* a series that was not cleaned: no is_anomaly column
RawSeries == drop(OneRowSeries, "is_anomaly")
StoreSeries == {TwoYearSeries, OneRowSeries, UnsortedSeries, RawSeries}
StoreSymbols == {"AAPL", "MSFT"}
StoreAssetType == "stocks"

NotLoaded == [called |-> FALSE]

(***************************************************************************)
(* The parts of the state a specification does not use                     *)
(***************************************************************************)
CleanOff ==
    /\ input = NoTable
    /\ output = NoTable
    /\ output2 = NoTable
    /\ cpc = "off"

FetchOff ==
    /\ impl = "fetch_yahoo"
    /\ cfg = DEFAULT_CONFIG
    /\ batch = <<>>
    /\ idx = 1
    /\ pc = "off"
    /\ attempt = 0
    /\ outcomes = <<>>
    /\ sleeps = <<>>
    /\ fetched = None

BatchOff == results = <<>> /\ log = <<>>

StoreOff == writes = <<>> /\ loaded = NotLoaded

ValidateOff == asked = <<>> /\ answers = <<>> /\ verdict = None

InfoOff == infoSymbols = <<>> /\ infoAnswers = <<>> /\ infoOut = None

(***************************************************************************)
(* SpecClean: validate_and_clean_data applied to a series, then to its own *)
(* output                                                                  *)
(***************************************************************************)
InitClean ==
    /\ input \in RawTables
    /\ output = NoTable
    /\ output2 = NoTable
    /\ cpc = "raw"
    /\ FetchOff /\ BatchOff /\ StoreOff /\ disk = EmptyDisk
    /\ ValidateOff /\ InfoOff

Clean ==
    /\ cpc = "raw"
    /\ \E out \in validate_and_clean_data(input) : output' = out
    /\ cpc' = "cleaned"
    /\ UNCHANGED <<input, output2, fetchVars, batchVars, storeVars, disk,
                   validVars, infoVars>>

Reclean ==
    /\ cpc = "cleaned"
    /\ \E out \in validate_and_clean_data(output) : output2' = out
    /\ cpc' = "recleaned"
    /\ UNCHANGED <<input, output, fetchVars, batchVars, storeVars, disk,
                   validVars, infoVars>>

NextClean == Clean \/ Reclean

SpecClean == InitClean /\ [][NextClean]_vars

(***************************************************************************)
(* SpecFetch: _fetch_single_symbol_with_retry for one symbol, one provider *)
(* request per step                                                        *)
(***************************************************************************)
InitFetch ==
    /\ impl \in Modules
    /\ cfg \in {[DEFAULT_CONFIG EXCEPT !.max_retries = n] : n \in 1..MaxRetries}
    /\ batch = <<Entry("stocks", "AAPL")>>
    /\ idx = 1
    /\ pc = "fetch"
    /\ attempt = 0
    /\ outcomes = <<>>
    /\ sleeps = <<>>
    /\ fetched = None
    /\ CleanOff /\ BatchOff /\ StoreOff /\ disk = EmptyDisk
    /\ ValidateOff /\ InfoOff

\* one pass of the loop "for attempt in range(max_retries)": the request,
\* the provider's answer and what the code does with it
FetchAttempt(responses) ==
    /\ pc = "fetch"
    /\ attempt < cfg.max_retries
    /\ \E response \in responses :
        LET step == fetch_single_symbol_attempt(impl, cfg, batch[idx].symbol,
                                                attempt, response)
        IN  /\ outcomes' = Append(outcomes, Outcome(response))
            /\ sleeps' = sleeps \o step.sleep
            /\ IF step.done
               THEN /\ fetched' = step.value
                    /\ pc' = "process"
                    /\ UNCHANGED attempt
               ELSE /\ attempt' = attempt + 1
                    /\ UNCHANGED <<fetched, pc>>
    /\ UNCHANGED <<impl, cfg, batch, idx, cleanVars, batchVars, storeVars, disk,
                   validVars, infoVars>>

NextFetch == FetchAttempt(FetchResponses)

SpecFetch == InitFetch /\ [][NextFetch]_vars

(***************************************************************************)
(* Spec: fetch_historical_data over a batch of symbols                     *)
(***************************************************************************)
\* a store that holds partitions of an earlier run
OldDisk ==
    save_data_to_parquet(EmptyDisk, TwoYearSeries, "AAPL",
                         DEFAULT_CONFIG.output_dir \o <<"stocks">>, 0, FALSE)

Init ==
    /\ impl \in Modules
    /\ cfg \in {[DEFAULT_CONFIG EXCEPT !.validate_data = v, !.save_to_parquet = w]
                    : v \in BOOLEAN, w \in BOOLEAN}
    /\ batch \in Batches
    /\ idx = 1
    /\ pc = IF batch = <<>> THEN "done" ELSE "fetch"
    /\ attempt = 0
    /\ outcomes = <<>>
    /\ sleeps = <<>>
    /\ fetched = None
    /\ results = <<>>
    /\ log = <<>>
    /\ disk \in {EmptyDisk, OldDisk}
    /\ CleanOff /\ StoreOff /\ ValidateOff /\ InfoOff

\* a loop that an exception ends ("break" for "continue")
next_pc_break(i, n, raised) == IF raised \/ i = n THEN "done" ELSE "fetch"

\* fetch_yahoo.py lines 108, 131-133: "except Exception ... continue", and
\* the end of the loop
next_pc(i, n, raised) == IF i = n THEN "done" ELSE "fetch"

\* a loop that saves whatever the configuration says
persist_always(config, d, data, symbol, output_dir, failAt, torn) ==
    save_data_to_parquet(d, data, symbol, output_dir, failAt, torn)

\* fetch_yahoo.py lines 119-122 / fetch_data.py lines 118-119: "if
\* cfg['save_to_parquet']"
persist(config, d, data, symbol, output_dir, failAt, torn) ==
    IF config.save_to_parquet
    THEN save_data_to_parquet(d, data, symbol, output_dir, failAt, torn)
    ELSE d

\* a mapping that takes the series only when every partition was written
store_result_if_saved(res, symbol, data, failAt) ==
    IF failAt = 0 THEN Put(res, symbol, data) ELSE res

\* fetch_yahoo.py lines 122-124 / fetch_data.py lines 119-121:
\* save_data_to_parquet has returned, whichever write failed (failAt), and
\* results[symbol] = data runs
store_result(res, symbol, data, failAt) == Put(res, symbol, data)

\* the loop moves on to the next symbol
NextSymbol(raised) ==
    /\ idx' = idx + 1
    /\ pc' = next_pc(idx, Len(batch), raised)
    /\ attempt' = 0
    /\ outcomes' = <<>>
    /\ sleeps' = <<>>
    /\ fetched' = None

\* fetch_yahoo.py lines 113-133 / fetch_data.py lines 112-130: the body of
\* the loop after the fetch returned.  raised: validate_and_clean_data
\* raises; failAt: the write that fails in save_data_to_parquet (0: none);
\* torn: that write had begun to write its file.
Process ==
    /\ pc = "process"
    /\ \E raised \in (IF fetched # None /\ cfg.validate_data
                      THEN BOOLEAN ELSE {FALSE}) :
       \E data \in (IF fetched # None /\ cfg.validate_data /\ ~raised
                    THEN validate_and_clean_data(fetched) ELSE {fetched}) :
       \E failAt \in (IF fetched # None /\ ~raised /\ data.rows # <<>>
                         /\ cfg.save_to_parquet
                      THEN 0..Len(years_of(data)) ELSE {0}) :
       \E torn \in (IF failAt > 0 THEN BOOLEAN ELSE {FALSE}) :
            /\ IF fetched # None /\ ~raised /\ data.rows # <<>>
               THEN /\ disk' = persist(cfg, disk, data, batch[idx].symbol,
                                       save_dir(impl, cfg, batch[idx]), failAt,
                                       torn)
                    /\ results' = store_result(results, batch[idx].symbol,
                                                data, failAt)
               ELSE UNCHANGED <<disk, results>>
            /\ log' = Append(log, [symbol |-> batch[idx].symbol,
                                   fetched |-> fetched,
                                   raised |-> raised,
                                   failAt |-> failAt,
                                   torn |-> torn])
            /\ NextSymbol(raised)
    /\ UNCHANGED <<impl, cfg, batch, cleanVars, storeVars,
                   validVars, infoVars>>

Next == FetchAttempt(BatchResponses) \/ Process

Spec == Init /\ [][Next]_vars

(***************************************************************************)
(* SpecValidate: fetch_and_validate_data, symbol validation and then the   *)
(* batch fetch of the symbols it kept                                      *)
(***************************************************************************)
\* what ticker.info is for a symbol: a dict with a regularMarketPrice, a
\* dict without one, an empty dict, or an exception
LookupAnswers == {"priced", "unpriced", "empty", "exception"}

\* validate_symbol.py lines 27-33 (fetch_data.py lines 398-404): the
\* verdict on one lookup
is_valid(answer) == answer = "priced"

\* validate_symbol.py lines 9-35 (fetch_data.py lines 380-406)
validate_symbols(symbols, lookups) ==
    LET at(ok) == {i \in 1..Len(symbols) : is_valid(lookups[i]) = ok}
        pick(I) == [k \in 1..Cardinality(I) |->
                      symbols[CHOOSE i \in I :
                                Cardinality({j \in I : j <= i}) = k]]
    IN  [valid |-> pick(at(TRUE)), invalid |-> pick(at(FALSE))]

\* a batch that keeps every symbol asked for
keep_all_symbols(module, entries, lookups, valid_symbols) == entries

\* fetch_yahoo.py lines 60-65: the symbols of each asset type that are in
\* valid_symbols; fetch_data.py line 564: valid_symbols itself, one entry
\* for each lookup that was judged valid
keep_valid_symbols(module, entries, lookups, valid_symbols) ==
    IF module = "fetch_yahoo"
    THEN SelectSeq(entries,
                   LAMBDA e : \E k \in 1..Len(valid_symbols) :
                                valid_symbols[k] = e.symbol)
    ELSE LET I == {i \in 1..Len(entries) : is_valid(lookups[i])}
         IN  [k \in 1..Cardinality(I) |->
                entries[CHOOSE i \in I : Cardinality({j \in I : j <= i}) = k]]

ValidateEntries == Entries \cup {Entry("stocks", "MSFT")}

\* the symbol lists of the dict handed in, flattened in its order: up to
\* one entry for each symbol there is and one more
AskedLists ==
    {b \in UNION {[1..n -> ValidateEntries] : n \in 0..Cardinality(ValidateEntries)} :
        \A i \in 1..Len(b) : \A j \in i..Len(b) : \A k \in i..j :
            b[i].asset_type = b[j].asset_type => b[k].asset_type = b[i].asset_type}

ValidateResponses == {Exception, Frame(GoodFrame), Frame(BadFrame)}

InitValidate ==
    /\ impl \in Modules
    /\ cfg = DEFAULT_CONFIG
    /\ asked \in AskedLists
    /\ answers \in [1..Len(asked) -> LookupAnswers]
    /\ verdict = None
    /\ batch = <<>>
    /\ idx = 1
    /\ pc = "validate"
    /\ attempt = 0
    /\ outcomes = <<>>
    /\ sleeps = <<>>
    /\ fetched = None
    /\ results = <<>>
    /\ log = <<>>
    /\ disk = EmptyDisk
    /\ CleanOff /\ StoreOff /\ InfoOff

\* fetch_yahoo.py lines 45-72 / fetch_data.py lines 549-567: the symbols
\* are validated, then either {} is returned or fetch_historical_data is
\* called, with the default configuration, on the symbols kept
Validate ==
    /\ pc = "validate"
    /\ LET v == validate_symbols([i \in 1..Len(asked) |-> asked[i].symbol],
                                 answers)
       IN  /\ verdict' = v
           /\ IF v.valid = <<>>
              THEN /\ batch' = <<>>
                   /\ pc' = "done"
              ELSE /\ batch' = keep_valid_symbols(impl, asked, answers, v.valid)
                   /\ pc' = "fetch"
    /\ UNCHANGED <<impl, cfg, idx, attempt, outcomes, sleeps, fetched,
                   asked, answers, results, log, disk,
                   cleanVars, storeVars, infoVars>>

NextValidate == Validate \/ FetchAttempt(ValidateResponses) \/ Process

SpecValidate == InitValidate /\ [][NextValidate]_vars

(***************************************************************************)
(* SpecInfo: fetch_asset_info and determine_asset_type                     *)
(*                                                                         *)
(* A symbol is the sequence of its characters here, so that endswith is    *)
(* computed.  ticker.info is a record of the keys the code reads; a key    *)
(* that is missing, or whose value is None, has the value Absent (Null     *)
(* for the number marketCap): dict.get gives None for both.                *)
(***************************************************************************)
Absent == "<None>"

\* str.endswith
endswith(symbol, suffix) ==
    /\ Len(symbol) >= Len(suffix)
    /\ SubSeq(symbol, Len(symbol) - Len(suffix) + 1, Len(symbol)) = suffix

\* utils.py lines 41-42 (fetch_data.py lines 363-364)
crypto_suffixes ==
    <<<<"-", "U", "S", "D">>, <<"-", "U", "S", "D", "T">>, <<"-", "B", "T", "C">>, <<"-", "E", "T", "H">>>>
crypto_symbols ==
    <<<<"B", "T", "C", "-", "U", "S", "D">>,
      <<"E", "T", "H", "-", "U", "S", "D">>,
      <<"A", "D", "A", "-", "U", "S", "D">>,
      <<"D", "O", "T", "-", "U", "S", "D">>>>

\* a classifier that looks at the provider's quote type first
determine_by_quote_type_first(symbol, info) ==
    IF info.quoteType = "ETF" THEN "etf"
    ELSE IF \/ \E k \in 1..Len(crypto_suffixes) : endswith(symbol, crypto_suffixes[k])
            \/ \E k \in 1..Len(crypto_symbols) : symbol = crypto_symbols[k]
         THEN "crypto"
         ELSE IF endswith(symbol, <<"=", "F">>) THEN "commodity" ELSE "stock"

\* utils.py lines 38-55 (fetch_data.py lines 360-377)
determine_asset_type(symbol, info) ==
    IF \/ \E k \in 1..Len(crypto_suffixes) : endswith(symbol, crypto_suffixes[k])
       \/ \E k \in 1..Len(crypto_symbols) : symbol = crypto_symbols[k]
    THEN "crypto"
    ELSE IF endswith(symbol, <<"=", "F">>) THEN "commodity"
         ELSE IF info.quoteType = "ETF" THEN "etf"
              ELSE "stock"

\* the empty dict {}
EmptyInfo ==
    [quoteType |-> Absent, longName |-> Absent, shortName |-> Absent,
     sector |-> Absent, marketCap |-> Null, currency |-> Absent,
     exchange |-> Absent]

\* asset_info.py lines 18-24: the fields and their defaults
AssetInfo(symbol, name, sector, market_cap, currency, exchange, asset_type) ==
    [symbol |-> symbol, name |-> name, sector |-> sector,
     market_cap |-> market_cap, currency |-> currency, exchange |-> exchange,
     asset_type |-> asset_type]

\* fetch_yahoo.py lines 258-261
minimal_asset_info(symbol) ==
    AssetInfo(symbol, Absent, Absent, Null, Absent, Absent,
              determine_asset_type(symbol, EmptyInfo))

\* asset_info.py line 21: ge=0, the validation that makes AssetInfo(...)
\* raise
market_cap_rejected(market_cap) == market_cap # Null /\ market_cap < 0

\* Python's "a or b" on optional strings: None and "" are falsy
or_else(a, b) == IF a = Absent \/ a = "" THEN b ELSE a

\* a lookup whose failure drops the symbol from the mapping
asset_info_or_nothing(symbol, lookup) ==
    IF lookup.kind # "info" \/ market_cap_rejected(lookup.info.marketCap)
    THEN <<>>
    ELSE <<AssetInfo(symbol,
                     or_else(lookup.info.longName, lookup.info.shortName),
                     lookup.info.sector, lookup.info.marketCap,
                     lookup.info.currency, lookup.info.exchange,
                     determine_asset_type(symbol, lookup.info))>>

\* fetch_yahoo.py lines 237-261, one pass of the loop: the AssetInfo the
\* symbol gets, in a sequence of one.  lookup.kind: "exception" (ticker.info
\* raises), "none" (ticker.info is None, so info.get raises) or "info".
asset_info_of(symbol, lookup) ==
    IF lookup.kind # "info" \/ market_cap_rejected(lookup.info.marketCap)
    THEN <<minimal_asset_info(symbol)>>
    ELSE <<AssetInfo(symbol,
                     or_else(lookup.info.longName, lookup.info.shortName),
                     lookup.info.sector, lookup.info.marketCap,
                     lookup.info.currency, lookup.info.exchange,
                     determine_asset_type(symbol, lookup.info))>>

\* fetch_yahoo.py lines 221-263
RECURSIVE fetch_asset_info(_, _)
fetch_asset_info(symbols, lookups) ==
    IF symbols = <<>> THEN <<>>
    ELSE LET n == Len(symbols)
             before == fetch_asset_info(SubSeq(symbols, 1, n - 1),
                                        SubSeq(lookups, 1, n - 1))
             made == asset_info_of(symbols[n], lookups[n])
         IN  IF made = <<>> THEN before ELSE Put(before, symbols[n], made[1])

InfoSymbols ==
    {<<"B", "T", "C", "-", "U", "S", "D">>,
     <<"E", "T", "H", "-", "U", "S", "D", "T">>,
     <<"X", "R", "P", "-", "B", "T", "C">>,
     <<"S", "O", "L", "-", "E", "T", "H">>,
     <<"A", "D", "A", "-", "U", "S", "D">>,
     <<"G", "C", "=", "F">>,
     <<"A", "A", "P", "L">>,
     <<"S", "P", "Y">>,
     <<"-", "U", "S", "D">>,
     <<"U", "S", "D">>,
     <<"B", "T", "C", "-", "U", "S", "D", "X">>,
     <<"b", "t", "c", "-", "u", "s", "d">>,
     <<"=", "F">>,
     <<"F">>,
     <<"G", "C", "=", "F", "-", "U", "S", "D">>,
     <<"B", "T", "C", "-", "U", "S", "D", "=", "F">>,
     <<>>}

Infos ==
    {[quoteType |-> q, longName |-> ln, shortName |-> sn, sector |-> se,
      marketCap |-> mc, currency |-> cu, exchange |-> cu]
        : q \in {Absent, "ETF", "EQUITY"}, ln \in {Absent, "", "Apple Inc."},
          sn \in {Absent, "Apple"}, se \in {Absent, "Technology"},
          mc \in {Null, 0, 5, -1}, cu \in {Absent, "USD"}}
InfoLookups ==
    {[kind |-> "exception"], [kind |-> "none"]}
        \cup {[kind |-> "info", info |-> i] : i \in Infos}
\* the lookups of the lists of two symbols
FewLookups ==
    {[kind |-> "exception"],
     [kind |-> "info", info |-> EmptyInfo],
     [kind |-> "info", info |-> [EmptyInfo EXCEPT !.quoteType = "ETF"]],
     [kind |-> "info", info |-> [EmptyInfo EXCEPT !.marketCap = -1]]}
FewSymbols == {<<"B", "T", "C", "-", "U", "S", "D">>, <<"G", "C", "=", "F">>, <<"S", "P", "Y">>}

\* the calls: no symbol, one symbol with any lookup, two symbols (also the
\* same one twice)
InfoCalls ==
    {[symbols |-> <<>>, lookups |-> <<>>]}
        \cup {[symbols |-> <<x>>, lookups |-> <<l>>]
                : x \in InfoSymbols, l \in InfoLookups}
        \cup {[symbols |-> <<x, y>>, lookups |-> <<l, m>>]
                : x \in FewSymbols, y \in FewSymbols,
                  l \in FewLookups, m \in FewLookups}

InitInfo ==
    /\ \E call \in InfoCalls :
        /\ infoSymbols = call.symbols
        /\ infoAnswers = call.lookups
    /\ infoOut = None
    /\ CleanOff /\ FetchOff /\ BatchOff /\ StoreOff /\ ValidateOff
    /\ disk = EmptyDisk

FetchAssetInfo ==
    /\ infoOut = None
    /\ infoOut' = [returned |-> fetch_asset_info(infoSymbols, infoAnswers)]
    /\ UNCHANGED <<infoSymbols, infoAnswers, cleanVars, fetchVars, batchVars,
                   storeVars, validVars, disk>>

NextInfo == FetchAssetInfo

SpecInfo == InitInfo /\ [][NextInfo]_vars

(***************************************************************************)
(* SpecPipeline: pipeline.py main: fetch_and_validate_data of the          *)
(* fetch_yahoo module on symbols grouped by asset type, fetch_asset_info   *)
(* on the symbols returned, then one load_data_from_parquet per symbol     *)
(***************************************************************************)
\* pipeline.py lines 18-22: the groups, with the first symbol of each
PipelineEntries ==
    <<Entry("stocks", "AAPL"), Entry("crypto", "BTC-USD"),
      Entry("commodities", "GC=F")>>

\* the characters of the symbols
Spelling ==
    ("AAPL" :> <<"A", "A", "P", "L">>)
        @@ ("BTC-USD" :> <<"B", "T", "C", "-", "U", "S", "D">>)
        @@ ("GC=F" :> <<"G", "C", "=", "F">>)

\* the dicts of one symbol list for each of some of the groups, flattened
PipelineLists ==
    {SelectSeq(PipelineEntries, LAMBDA e : e.asset_type \in G)
        : G \in SUBSET {"stocks", "crypto", "commodities"}}

PipelineLookups == {"priced", "exception"}
PipelineResponses == {Exception, Frame(GoodFrame)}
PipelineInfoLookups ==
    {[kind |-> "exception"], [kind |-> "info", info |-> EmptyInfo]}

\* the keys of a mapping in some order
RECURSIVE KeyList(_)
KeyList(S) ==
    IF S = {} THEN <<>>
    ELSE LET k == CHOOSE x \in S : TRUE IN <<k>> \o KeyList(S \ {k})

InitPipeline ==
    /\ impl = "fetch_yahoo"
    /\ cfg = DEFAULT_CONFIG
    /\ asked \in PipelineLists
    /\ answers \in [1..Len(asked) -> PipelineLookups]
    /\ verdict = None
    /\ batch = <<>>
    /\ idx = 1
    /\ pc = "validate"
    /\ attempt = 0
    /\ outcomes = <<>>
    /\ sleeps = <<>>
    /\ fetched = None
    /\ results = <<>>
    /\ log = <<>>
    /\ disk = EmptyDisk
    /\ CleanOff /\ StoreOff /\ InfoOff

\* pipeline.py line 28: asset_info = fetch_asset_info(list(data.keys()))
PipelineInfo ==
    /\ pc = "done"
    /\ verdict # None
    /\ LET keys == KeyList(DOMAIN results)
       IN  \E lookups \in [1..Len(keys) -> PipelineInfoLookups] :
            /\ infoSymbols' = [k \in 1..Len(keys) |-> Spelling[keys[k]]]
            /\ infoAnswers' = lookups
            /\ infoOut' = [returned |->
                            fetch_asset_info(
                                [k \in 1..Len(keys) |-> Spelling[keys[k]]],
                                lookups)]
    /\ pc' = "show"
    /\ UNCHANGED <<impl, cfg, batch, idx, attempt, outcomes, sleeps, fetched,
                   results, log, disk, cleanVars, storeVars, validVars>>

\* pipeline.py lines 31-55, one pass of the loop "for symbol in data": the
\* asset type is derived from the symbol and the symbol is read back
PipelineLoad ==
    /\ pc = "show"
    /\ \E symbol \in DOMAIN results :
        LET asset_type == determine_asset_type(Spelling[symbol], EmptyInfo)
        IN  \E value \in load_data_from_parquet(disk, symbol, asset_type, 0,
                                                <<"data/raw">>) :
                loaded' = [called |-> TRUE, symbol |-> symbol,
                           asset_type |-> asset_type, year |-> 0,
                           value |-> value]
    /\ UNCHANGED <<writes, disk, cleanVars, fetchVars, batchVars, validVars,
                   infoVars>>

NextPipeline ==
    \/ Validate
    \/ FetchAttempt(PipelineResponses)
    \/ Process
    \/ PipelineInfo
    \/ PipelineLoad

SpecPipeline == InitPipeline /\ [][NextPipeline]_vars

(***************************************************************************)
(* SpecStore: save_data_to_parquet calls on an empty store, then one       *)
(* load_data_from_parquet                                                  *)
(***************************************************************************)
InitStore ==
    /\ disk = EmptyDisk
    /\ writes = <<>>
    /\ loaded = NotLoaded
    /\ CleanOff /\ FetchOff /\ BatchOff /\ ValidateOff /\ InfoOff

StoreSave ==
    /\ loaded = NotLoaded
    /\ Len(writes) < MaxWrites
    /\ \E data \in StoreSeries, symbol \in StoreSymbols :
       \E failAt \in 0..Len(years_of(data)) :
       \E torn \in (IF failAt > 0 THEN BOOLEAN ELSE {FALSE}) :
            /\ disk' = save_data_to_parquet(
                            disk, data, symbol,
                            DEFAULT_CONFIG.output_dir \o <<StoreAssetType>>,
                            failAt, torn)
            /\ writes' = Append(writes, [data |-> data, symbol |-> symbol,
                                         failAt |-> failAt, torn |-> torn])
    /\ UNCHANGED <<loaded, cleanVars, fetchVars, batchVars,
                   validVars, infoVars>>

StoreLoad ==
    /\ loaded = NotLoaded
    /\ \E symbol \in StoreSymbols, year \in {0, EpochYear, EpochYear + 1} :
       \E value \in load_data_from_parquet(disk, symbol, StoreAssetType, year,
                                           DEFAULT_CONFIG.output_dir) :
            loaded' = [called |-> TRUE, symbol |-> symbol, year |-> year,
                       value |-> value]
    /\ UNCHANGED <<disk, writes, cleanVars, fetchVars, batchVars,
                   validVars, infoVars>>

NextStore == StoreSave \/ StoreLoad

SpecStore == InitStore /\ [][NextStore]_vars

(***************************************************************************)
(* Properties of validate_and_clean_data (SpecClean)                       *)
(***************************************************************************)
Range(s) == {s[i] : i \in 1..Len(s)}
Occurrences(s, x) == Cardinality({i \in 1..Len(s) : s[i] = x})
Restrict(r, columns) == [c \in columns |-> r[c]]
Cleaned == cpc \in {"cleaned", "recleaned"}
Sorted(rows) ==
    \A i \in 1..Len(rows) : \A j \in i..Len(rows) :
        rows[i]["timestamp"] <= rows[j]["timestamp"]
AllFlaggedFalse(rows) == \A i \in 1..Len(rows) : rows[i]["is_anomaly"] = FlagFalse

\* the invariants of a MarketSeries row
RowInvariant(r) ==
    /\ \A c \in {"open", "high", "low", "close"} : r[c] # Null /\ r[c] > 0
    /\ "adj_close" \in DOMAIN r => r["adj_close"] # Null /\ r["adj_close"] > 0
    /\ r["volume"] # Null /\ r["volume"] >= 0
    /\ r["high"] >= r["open"] /\ r["high"] >= r["close"]
    /\ r["high"] >= r["low"]
    /\ r["low"] <= r["open"] /\ r["low"] <= r["close"]

\* C1: every row in the output of validate_and_clean_data has open, high,
\* low, close (and adj_close when the column exists) > 0, volume >= 0,
\* high >= max(open, close), high >= low and low <= min(open, close).
C1_OutputRowsValid ==
    Cleaned => \A i \in 1..Len(output.rows) : RowInvariant(output.rows[i])

\* a series of which the drop stages removed a row and kept another
C1_Witness ==
    /\ cpc = "cleaned"
    /\ Len(output.rows) >= 1
    /\ Len(output.rows) < Len(input.rows)

\* C2: applying validate_and_clean_data to its own output returns that
\* output again: the same rows, in the same order, with the same is_anomaly
\* value on every row, also when the input was not in timestamp order.
\* Stated on the inputs whose timestamps are pairwise distinct, where the
\* sort has a single outcome.
C2_Idempotent ==
    /\ cpc = "recleaned"
    /\ \A i \in 1..Len(input.rows) : \A j \in 1..Len(input.rows) :
            i # j => input.rows[i]["timestamp"] # input.rows[j]["timestamp"]
    => output2 = output

\* C7: the output of validate_and_clean_data is sorted ascending
\* (non-decreasing) by timestamp.
C7_OutputSorted == Cleaned => Sorted(output.rows)

\* an input out of timestamp order, cleaned, with two or more rows kept
C7_Witness ==
    /\ cpc = "cleaned"
    /\ ~Sorted(input.rows)
    /\ Len(output.rows) >= 2

\* C8: cleaning only drops rows: each row of the output is a row of the
\* input with every input column unchanged, no row is in the output more
\* often than in the input, and is_anomaly is the only column added.
C8_OnlyDrops ==
    Cleaned =>
        /\ output.columns = input.columns \cup {"is_anomaly"}
        /\ \A i \in 1..Len(output.rows) :
            LET r == Restrict(output.rows[i], input.columns)
            IN  /\ DOMAIN output.rows[i] = output.columns
                /\ r \in Range(input.rows)
                /\ Occurrences([k \in 1..Len(output.rows) |->
                                  Restrict(output.rows[k], input.columns)], r)
                     <= Occurrences(input.rows, r)

\* a series that reached the statistical branch of the detector after a
\* row of it was dropped
C8_Witness ==
    /\ cpc = "cleaned"
    /\ Len(output.rows) >= MinRows
    /\ Len(output.rows) < Len(input.rows)

\* C9: a series with fewer than 10 rows gets is_anomaly = false on every
\* row, and the count that decides is the one after the drop stages: an
\* input of 10 or more rows of which fewer than 10 survive gets false on
\* every row too.
C9_ShortSeriesUnflagged ==
    Cleaned /\ Len(output.rows) < MinRows => AllFlaggedFalse(output.rows)

\* an input of 10 rows or more of which fewer than 10 survived
C9_Witness ==
    /\ cpc = "cleaned"
    /\ Len(input.rows) >= MinRows
    /\ Len(output.rows) < MinRows
    /\ Len(output.rows) >= 1

\* C10: a constant-price series of 10 or more rows gets is_anomaly = false
\* on every row, the first row included.
C10_ConstantSeriesUnflagged ==
    /\ cpc = "cleaned"
    /\ Len(output.rows) >= MinRows
    /\ \A i \in 1..Len(output.rows) :
            output.rows[i]["close"] = output.rows[1]["close"]
    => AllFlaggedFalse(output.rows)

\* the reference rule on rows in series order: false on the first row,
\* on a later row true exactly when |change - mean| > 3 * std, that is
\* (m - 1) * (m * change - sum)^2 > 9 * (sum over j of (m * change_j - sum)^2)
\* with m changes, the first row's undefined change left out
ReferenceFlags(rows) ==
    LET den == close_product(rows)
        change == [i \in 2..Len(rows) |->
                     (rows[i]["close"] - rows[i - 1]["close"])
                        * (den \div rows[i - 1]["close"])]
        m == Len(rows) - 1
        sum == SeqSum([k \in 1..m |-> change[k + 1]])
        sq(i) == (m * change[i] - sum) * (m * change[i] - sum)
        sumsq == SeqSum([k \in 1..m |-> sq(k + 1)])
    IN  [i \in 1..Len(rows) |->
            IF i = 1 THEN FlagFalse
            ELSE IF (m - 1) * sq(i) > 9 * sumsq THEN FlagTrue ELSE FlagFalse]

\* the changes of close over the rows are not all equal: their standard
\* deviation is not zero
NonZeroStd(rows) ==
    \E i \in 2..Len(rows) : \E j \in 2..Len(rows) :
        rows[i]["close"] * rows[j - 1]["close"]
            # rows[j]["close"] * rows[i - 1]["close"]

\* the input is a valid series in strictly ascending timestamp order: no
\* row is dropped and the sort moves none
KeptInOrder ==
    /\ Len(output.rows) = Len(input.rows)
    /\ \A i \in 1..Len(input.rows) : \A j \in (i + 1)..Len(input.rows) :
            input.rows[i]["timestamp"] < input.rows[j]["timestamp"]

\* C11: on a series of 10 or more rows whose percentage changes have a
\* non-zero standard deviation, is_anomaly is the reference rule: false on
\* the first row, and on every later row true exactly when
\* |change - mean| > 3 * std, mean and std over the changes without the
\* undefined first one.
C11_ReferenceRule ==
    /\ cpc = "cleaned"
    /\ KeptInOrder
    /\ Len(output.rows) >= MinRows
    /\ NonZeroStd(output.rows)
    => \A i \in 1..Len(output.rows) :
            output.rows[i]["is_anomaly"] = ReferenceFlags(output.rows)[i]

(***************************************************************************)
(* Properties of _fetch_single_symbol_with_retry (SpecFetch)               *)
(***************************************************************************)
Returned == pc = "process"
Transient == {"exception", "empty"}

\* C3: the fetch makes a new attempt after every failed attempt (exception
\* or empty result) that is not the last one, and sleeps
\* retry_delay * 2^attempt before it: when the fetch has returned after n
\* requests, the n - 1 requests before the last all failed, a failed last
\* request is request max_retries, and the sleeps are retry_delay * 1,
\* retry_delay * 2, ..., retry_delay * 2^(n - 2).
C3_ExponentialBackoff ==
    Returned =>
        /\ \A k \in 1..(Len(outcomes) - 1) : outcomes[k] \in Transient
        /\ outcomes[Len(outcomes)] \in Transient => Len(outcomes) = cfg.max_retries
        /\ sleeps = [k \in 1..(Len(outcomes) - 1) |-> cfg.retry_delay * Pow2(k - 1)]

\* C4: the fetch returns after at most max_retries requests; it returns a
\* table exactly when its last request was answered with a well-formed
\* non-empty frame, and no request before was; it returns None after
\* transient failures only (exception, empty) only once max_retries
\* requests were made; it sleeps only between two requests.
C4_BoundedRetries ==
    /\ Len(outcomes) <= cfg.max_retries
    /\ Len(sleeps) <= Len(outcomes)
    /\ Returned =>
        /\ Len(sleeps) < Len(outcomes)
        /\ \A k \in 1..(Len(outcomes) - 1) : outcomes[k] # "table"
        /\ fetched # None <=> outcomes[Len(outcomes)] = "table"
        /\ (fetched = None /\ \A k \in 1..Len(outcomes) : outcomes[k] \in Transient)
                => Len(outcomes) = cfg.max_retries

\* C19: every table a single-symbol fetch returns has the columns
\* adj_close, dividends and stock_splits; adj_close is the row's close where
\* the provider gave none, dividends and stock_splits are 0 where the
\* provider gave none.  (The provider frames here carry an Adj Close equal
\* to Close, and dividends and splits of 0, when they carry them at all.)
C19_OptionalColumnsFilled ==
    Returned /\ fetched # None =>
        /\ {"adj_close", "dividends", "stock_splits"} \subseteq fetched.columns
        /\ \A i \in 1..Len(fetched.rows) :
            /\ fetched.rows[i]["adj_close"] = fetched.rows[i]["close"]
            /\ fetched.rows[i]["dividends"] = 0
            /\ fetched.rows[i]["stock_splits"] = 0

(***************************************************************************)
(* Properties of fetch_historical_data (Spec)                              *)
(***************************************************************************)
\* what cleaning can make of a fetched table under the configuration
CleanOutcomes(table) ==
    IF cfg.validate_data THEN validate_and_clean_data(table) ELSE {table}

\* the i-th symbol processed was fetched, cleaned without an exception and
\* has rows left
Succeeded(i) ==
    /\ log[i].fetched # None
    /\ ~log[i].raised
    /\ \E t \in CleanOutcomes(log[i].fetched) : t.rows # <<>>

\* C5: the failure of a symbol neither ends the batch nor touches another
\* symbol's outcome: every symbol of the input is processed, in order, the
\* keys of the returned mapping are exactly the symbols that were fetched
\* and are non-empty after cleaning, and each maps to its cleaned series.
C5_FailuresIsolated ==
    /\ Len(log) <= Len(batch)
    /\ \A i \in 1..Len(log) : log[i].symbol = batch[i].symbol
    /\ pc = "done" => Len(log) = Len(batch)
    /\ DOMAIN results = {log[i].symbol : i \in {j \in 1..Len(log) : Succeeded(j)}}
    /\ \A s \in DOMAIN results :
        \E i \in 1..Len(log) :
            /\ log[i].symbol = s /\ Succeeded(i)
            /\ \A j \in (i + 1)..Len(log) : log[j].symbol = s => ~Succeeded(j)
            /\ results[s] \in CleanOutcomes(log[i].fetched)

\* a finished batch of two symbols of which the first failed and the second
\* is in the mapping
C5_Witness ==
    /\ pc = "done"
    /\ Len(batch) = 2
    /\ batch[1].symbol # batch[2].symbol
    /\ ~Succeeded(1)
    /\ DOMAIN results = {batch[2].symbol}

\* the fetch of the current symbol has returned on a response that lacks a
\* required column
SchemaFailed ==
    /\ pc = "process"
    /\ outcomes # <<>>
    /\ outcomes[Len(outcomes)] = "schema"

\* C12: a response that lacks a required column after renaming ends the
\* fetch of the symbol on that attempt with None: no request follows it and
\* no sleep, also when attempts remain; and the batch loop then goes on
\* with the next symbol, the mapping and the store left as they are.
C12_SchemaFailureIsFinal ==
    /\ [](\A k \in 1..Len(outcomes) :
            outcomes[k] = "schema" =>
                /\ k = Len(outcomes)
                /\ pc = "process"
                /\ fetched = None
                /\ Len(sleeps) < k)
    /\ [][SchemaFailed =>
            /\ idx' = idx + 1
            /\ pc' = IF idx < Len(batch) THEN "fetch" ELSE "done"
            /\ results' = results
            /\ disk' = disk]_vars

\* a schema failure with attempts left and a symbol after it in the batch
C12_Witness ==
    /\ SchemaFailed
    /\ Len(outcomes) < cfg.max_retries
    /\ idx < Len(batch)

\* C13: an I/O error while the partitions of a symbol are written does
\* not reach the caller: the symbol's series is in the returned mapping all
\* the same, and the loop goes on, so that every symbol after it is
\* processed too.
C13_WriteFailureSwallowed ==
    /\ \A i \in 1..Len(log) :
            log[i].failAt > 0 =>
                /\ Succeeded(i)
                /\ log[i].symbol \in DOMAIN results
                /\ (\A j \in (i + 1)..Len(log) : log[j].symbol # log[i].symbol)
                        => results[log[i].symbol] \in CleanOutcomes(log[i].fetched)
    /\ Len(log) < Len(batch) => pc \in {"fetch", "process"} /\ idx = Len(log) + 1
    /\ pc = "done" => Len(log) = Len(batch)

\* a finished batch whose first symbol had a failed write and whose second
\* symbol was fetched and stored
C13_Witness ==
    /\ pc = "done"
    /\ Len(log) = 2
    /\ log[1].failAt > 0
    /\ log[1].symbol \in DOMAIN results
    /\ log[2].symbol # log[1].symbol
    /\ log[2].symbol \in DOMAIN results
    /\ log[2].failAt = 0

\* C20: with save_to_parquet disabled a batch fetch writes nothing: no
\* step of it changes the directories, the partition files or their
\* contents; and the mapping it returns is what it returns with
\* persistence enabled: the symbols fetched and non-empty after cleaning,
\* each with its cleaned series, whatever save_to_parquet is.
C20_SaveDisabledWritesNothing ==
    /\ [][~cfg.save_to_parquet => disk' = disk]_vars
    /\ [](pc = "done" =>
            /\ DOMAIN results
                 = {log[i].symbol : i \in {j \in 1..Len(log) : Succeeded(j)}}
            /\ \A i \in 1..Len(log) :
                /\ Succeeded(i)
                /\ \A j \in (i + 1)..Len(log) :
                        log[j].symbol = log[i].symbol => ~Succeeded(j)
                => results[log[i].symbol] \in CleanOutcomes(log[i].fetched))

\* a batch fetched with saving disabled over a store that holds partitions:
\* a series is returned and the store is as it was
C20_Witness ==
    /\ pc = "done"
    /\ ~cfg.save_to_parquet
    /\ results # <<>>
    /\ disk = OldDisk

(***************************************************************************)
(* Properties of the partitioned store (SpecStore)                         *)
(***************************************************************************)
WritesOf(symbol) == {k \in 1..Len(writes) : writes[k].symbol = symbol}
FilesOf(symbol) == {f \in DOMAIN disk.files : f.symbol = symbol}
SameRows(a, b) ==
    /\ Len(a) = Len(b)
    /\ \A i \in 1..Len(a) : Occurrences(a, a[i]) = Occurrences(b, a[i])
DistinctYears(rows) == {Year(rows[i]["timestamp"]) : i \in 1..Len(rows)}

\* the symbol was written once, without an I/O error, and then read with
\* no year filter
RoundTrip ==
    /\ loaded.called
    /\ loaded.year = 0
    /\ Cardinality(WritesOf(loaded.symbol)) = 1
    /\ \A k \in WritesOf(loaded.symbol) : writes[k].failAt = 0

\* C6: after one write of a non-empty series for a symbol that had no
\* partitions, a read with no year filter returns exactly the rows written,
\* ascending by timestamp, and the symbol has as many partition files as
\* the series has calendar years (two for 2022-12-31 and 2023-01-01).
C6_RoundTrip ==
    RoundTrip =>
        \A k \in WritesOf(loaded.symbol) :
            /\ loaded.value # None
            /\ loaded.value.columns = writes[k].data.columns
            /\ SameRows(loaded.value.rows, writes[k].data.rows)
            /\ Sorted(loaded.value.rows)
            /\ Cardinality(FilesOf(loaded.symbol))
                 = Cardinality(DistinctYears(writes[k].data.rows))
            /\ writes[k].data = TwoYearSeries
                 => Cardinality(FilesOf(loaded.symbol)) = 2

\* the series of 2022-12-31 and 2023-01-01 written and read back
C6_Witness ==
    /\ RoundTrip
    /\ \E k \in WritesOf(loaded.symbol) : writes[k].data = TwoYearSeries
    /\ loaded.value # None
    /\ Len(loaded.value.rows) = 2

\* the partition file of a symbol and a year under the store's directory
PartitionOf(symbol, year) ==
    [dir |-> DEFAULT_CONFIG.output_dir \o <<StoreAssetType, symbol>>,
     symbol |-> symbol, year |-> year]

\* the last write went through without an I/O error
LastWriteSucceeded == writes # <<>> /\ writes[Len(writes)].failAt = 0

\* C14: after a successful write of a series for a symbol, each row of the
\* series is in the partition file outputDir/symbol/symbol_<year> of the
\* year of its timestamp, as often as it is in the series, and the files
\* of the years of the series hold rows of their own year only: so no row
\* is in a second file written by the call.
C14_PartitionedByYear ==
    LastWriteSucceeded =>
        LET w == writes[Len(writes)]
        IN  /\ \A i \in 1..Len(w.data.rows) :
                LET r == w.data.rows[i]
                    f == PartitionOf(w.symbol, Year(r["timestamp"]))
                IN  /\ f \in DOMAIN disk.files
                    /\ Occurrences(disk.files[f].rows, r)
                         = Occurrences(w.data.rows, r)
            /\ \A y \in DistinctYears(w.data.rows) :
                LET f == PartitionOf(w.symbol, y)
                IN  /\ f \in DOMAIN disk.files
                    /\ disk.files[f].columns = w.data.columns
                    /\ \A k \in 1..Len(disk.files[f].rows) :
                        /\ Year(disk.files[f].rows[k]["timestamp"]) = y
                        /\ disk.files[f].rows[k] \in Range(w.data.rows)

\* a series of two years with one row twice, written after another write
\* for the same symbol
C14_Witness ==
    /\ LastWriteSucceeded
    /\ Len(writes) = 2
    /\ writes[1].symbol = writes[2].symbol
    /\ writes[2].data = UnsortedSeries
    /\ Cardinality({f \in FilesOf(writes[2].symbol) : f.year \in
                        DistinctYears(writes[2].data.rows)}) = 2

\* the writes for a symbol whose series has rows in a year
WritesOfYear(symbol, year) ==
    {k \in WritesOf(symbol) : year \in DistinctYears(writes[k].data.rows)}
Latest(S) == CHOOSE k \in S : \A j \in S : j <= k
RowsOfYear(rows, year) ==
    SelectSeq(rows, LAMBDA r : Year(r["timestamp"]) = year)
AllWritesSucceeded == \A k \in 1..Len(writes) : writes[k].failAt = 0

\* C15: after any sequence of successful writes, the partition of a symbol
\* and a year exists exactly when a write for the symbol had rows in the
\* year, and holds the rows of that year of the latest such write and
\* nothing else: no row of an earlier write stays in it.
C15_PartitionOverwritten ==
    AllWritesSucceeded =>
        \A symbol \in StoreSymbols : \A y \in {EpochYear, EpochYear + 1} :
            LET f == PartitionOf(symbol, y)
                S == WritesOfYear(symbol, y)
            IN  /\ f \in DOMAIN disk.files <=> S # {}
                /\ S # {} =>
                    /\ disk.files[f].rows
                         = RowsOfYear(writes[Latest(S)].data.rows, y)
                    /\ disk.files[f].columns = writes[Latest(S)].data.columns

\* two successful writes for one symbol: the second replaced the partition
\* of 2022 with other rows and left the partition of 2023 of the first
C15_Witness ==
    /\ AllWritesSucceeded
    /\ Len(writes) = 2
    /\ writes[1].symbol = writes[2].symbol
    /\ writes[1].data = TwoYearSeries
    /\ writes[2].data = OneRowSeries
    /\ disk.files[PartitionOf(writes[2].symbol, EpochYear)].rows
         = OneRowSeries.rows
    /\ PartitionOf(writes[2].symbol, EpochYear + 1) \in DOMAIN disk.files

(***************************************************************************)
(* Properties of fetch_and_validate_data (SpecValidate)                    *)
(***************************************************************************)
Validated == verdict # None
\* the symbols history was or is being requested for
Requested ==
    {log[i].symbol : i \in 1..Len(log)}
        \cup (IF pc \in {"fetch", "process"} THEN {batch[idx].symbol} ELSE {})
\* no symbol is asked for twice
DistinctAsked ==
    \A i \in 1..Len(asked) : \A j \in 1..Len(asked) :
        i # j => asked[i].symbol # asked[j].symbol
\* one symbol judged invalid and two, different ones, judged valid
OneInvalidTwoValid ==
    /\ Validated
    /\ Len(verdict.invalid) = 1
    /\ Len(verdict.valid) = 2
    /\ Cardinality(Range(verdict.valid) \cup Range(verdict.invalid)) = 3

\* C16: fetch_and_validate_data requests no history for a symbol that
\* validation judged invalid, returns the empty mapping without a history
\* request when no symbol is valid, and for one invalid and two valid
\* symbols returns a mapping whose keys are exactly the two valid symbols.
\* Stated on the lists that name no symbol twice.
C16_OnlyValidFetched ==
    DistinctAsked =>
        /\ Validated => Requested \cap Range(verdict.invalid) = {}
        /\ Validated /\ verdict.valid = <<>> =>
            pc = "done" /\ results = <<>> /\ Requested = {} /\ outcomes = <<>>
        /\ pc = "done" /\ OneInvalidTwoValid =>
            DOMAIN results = Range(verdict.valid)

\* C16 amended: history is requested only for symbols validation judged
\* valid; the empty mapping is returned without a history request when no
\* symbol is valid; the keys of the returned mapping are the valid symbols
\* whose history fetch gave a series that is non-empty after cleaning, so
\* that for one invalid and two valid symbols they are exactly the two
\* valid symbols when both history fetches succeed.
C16_OnlyValidFetchedAmended ==
    /\ ~Validated => Requested = {} /\ results = <<>>
    /\ Validated => Requested \subseteq Range(verdict.valid)
    /\ Validated /\ verdict.valid = <<>> =>
            pc = "done" /\ results = <<>> /\ Requested = {} /\ outcomes = <<>>
    /\ pc = "done" /\ Validated =>
            /\ {log[i].symbol : i \in 1..Len(log)} = Range(verdict.valid)
            /\ DOMAIN results
                 = {log[i].symbol : i \in {j \in 1..Len(log) : Succeeded(j)}}
    /\ pc = "done" /\ OneInvalidTwoValid /\ (\A i \in 1..Len(log) : Succeeded(i)) =>
            DOMAIN results = Range(verdict.valid)

\* one invalid and two valid symbols, both fetched and returned
C16_Witness ==
    /\ pc = "done"
    /\ OneInvalidTwoValid
    /\ Len(log) = 2
    /\ \A i \in 1..Len(log) : Succeeded(i)
    /\ DOMAIN results = Range(verdict.valid)

(***************************************************************************)
(* Properties of fetch_asset_info and determine_asset_type (SpecInfo)      *)
(***************************************************************************)
InfoReturned == infoOut # None
\* the lookup that decides a symbol's entry: the last one made for it
LastLookup(symbol) ==
    infoAnswers[CHOOSE k \in 1..Len(infoSymbols) :
                    /\ infoSymbols[k] = symbol
                    /\ \A j \in (k + 1)..Len(infoSymbols) : infoSymbols[j] # symbol]
\* the symbol is some prefix followed by the suffix
HasSuffix(symbol, suffix) ==
    \E n \in 0..Len(symbol) :
        symbol = SubSeq(symbol, 1, n) \o suffix
\* the classification rule, in its order of precedence
Classify(symbol, quoteType) ==
    CASE \/ HasSuffix(symbol, <<"-", "U", "S", "D">>)
         \/ HasSuffix(symbol, <<"-", "U", "S", "D", "T">>)
         \/ HasSuffix(symbol, <<"-", "B", "T", "C">>)
         \/ HasSuffix(symbol, <<"-", "E", "T", "H">>)
         \/ symbol \in {<<"B", "T", "C", "-", "U", "S", "D">>, <<"E", "T", "H", "-", "U", "S", "D">>,
                        <<"A", "D", "A", "-", "U", "S", "D">>, <<"D", "O", "T", "-", "U", "S", "D">>}
            -> "crypto"
      [] OTHER ->
            IF HasSuffix(symbol, <<"=", "F">>) THEN "commodity"
            ELSE IF quoteType = "ETF" THEN "etf" ELSE "stock"

\* C17: fetch_asset_info returns, whatever lookups fail, a mapping whose
\* keys are exactly the input symbols, each to an AssetInfo of that symbol;
\* a symbol whose lookup failed maps to the minimal AssetInfo: the symbol,
\* asset_type as classified without provider info, and name, sector,
\* market_cap, currency and exchange absent.
C17_InfoNeverFails ==
    InfoReturned =>
        /\ DOMAIN infoOut.returned = Range(infoSymbols)
        /\ \A symbol \in Range(infoSymbols) :
            /\ infoOut.returned[symbol].symbol = symbol
            /\ LastLookup(symbol).kind # "info" =>
                infoOut.returned[symbol]
                    = [symbol |-> symbol, name |-> Absent, sector |-> Absent,
                       market_cap |-> Null, currency |-> Absent,
                       exchange |-> Absent,
                       asset_type |-> Classify(symbol, Absent)]

\* two symbols of which the first lookup raised and the second did not
C17_Witness ==
    /\ InfoReturned
    /\ Len(infoSymbols) = 2
    /\ infoSymbols[1] # infoSymbols[2]
    /\ infoAnswers[1].kind = "exception"
    /\ infoAnswers[2].kind = "info"
    /\ infoOut.returned[infoSymbols[1]].name = Absent
    /\ infoOut.returned[infoSymbols[1]].asset_type = "crypto"

\* the provider info the classifier was given for a symbol: the one looked
\* up, or none when the lookup or the construction of the AssetInfo failed
InfoUsed(symbol) ==
    IF LastLookup(symbol).kind = "info"
        /\ infoOut.returned[symbol].market_cap = LastLookup(symbol).info.marketCap
    THEN LastLookup(symbol).info
    ELSE EmptyInfo

\* C18: the asset type of every symbol is crypto when the symbol ends with
\* -USD, -USDT, -BTC or -ETH or is a known crypto symbol; otherwise
\* commodity when it ends with =F; otherwise etf when the provider's
\* quoteType is ETF; otherwise stock.  The suffix checks win over the
\* quote type.
C18_ClassifierRule ==
    InfoReturned =>
        \A symbol \in Range(infoSymbols) :
            /\ infoOut.returned[symbol].asset_type
                 = Classify(symbol, InfoUsed(symbol).quoteType)
            /\ infoOut.returned[symbol].asset_type
                 \in {"crypto", "commodity", "etf", "stock"}

\* a crypto symbol and a commodity symbol, both with quoteType ETF, and
\* classified by their suffix
C18_Witness ==
    /\ InfoReturned
    /\ Len(infoSymbols) = 2
    /\ \A k \in 1..2 :
        /\ infoAnswers[k].kind = "info"
        /\ infoAnswers[k].info.quoteType = "ETF"
    /\ infoOut.returned[infoSymbols[1]].asset_type = "crypto"
    /\ infoOut.returned[infoSymbols[2]].asset_type = "commodity"

\* the rows of series a in the years in which series b has no row
RowsOutside(a, b) ==
    SelectSeq(a.rows,
              LAMBDA r : Year(r["timestamp"]) \notin DistinctYears(b.rows))

\* the symbol was written exactly twice, both times without an I/O error,
\* and the first series has rows in a year in which the second has none
WrittenTwice(symbol, i, j) ==
    /\ WritesOf(symbol) = {i, j}
    /\ i < j
    /\ writes[i].failAt = 0
    /\ writes[j].failAt = 0
    /\ RowsOutside(writes[i].data, writes[j].data) # <<>>

\* C22: a write leaves the partitions of the years absent from its series
\* alone: after writing series A and then series B for one symbol, each
\* year of A in which B has no row still has its partition with A's rows
\* of that year, and a read with no year filter returns B's rows together
\* with those rows of A.
C22_OtherYearsKept ==
    \A symbol \in StoreSymbols : \A i, j \in 1..Len(writes) :
        WrittenTwice(symbol, i, j) =>
            LET A == writes[i].data
                B == writes[j].data
            IN  /\ \A y \in DistinctYears(RowsOutside(A, B)) :
                    /\ PartitionOf(symbol, y) \in DOMAIN disk.files
                    /\ disk.files[PartitionOf(symbol, y)].rows
                         = RowsOfYear(A.rows, y)
                /\ loaded.called /\ loaded.symbol = symbol /\ loaded.year = 0
                    => /\ loaded.value # None
                       /\ SameRows(loaded.value.rows,
                                   B.rows \o RowsOutside(A, B))

\* a row no listed reason applies to: nothing null among open, high, low,
\* close and volume, prices > 0, adj_close missing (no such column, or no
\* value) or > 0, volume >= 0 and the five OHLC inequalities
NoReasonToDrop(r) ==
    /\ \A c \in {"open", "high", "low", "close"} : r[c] # Null /\ r[c] > 0
    /\ \/ "adj_close" \notin DOMAIN r
       \/ r["adj_close"] = Null
       \/ r["adj_close"] > 0
    /\ r["volume"] # Null /\ r["volume"] >= 0
    /\ r["high"] >= r["open"] /\ r["high"] >= r["close"]
    /\ r["high"] >= r["low"]
    /\ r["low"] <= r["open"] /\ r["low"] <= r["close"]

\* how often a row of the input is among the rows of the output
Kept(rows, r) ==
    Cardinality({k \in 1..Len(rows) : Restrict(rows[k], DOMAIN r) = r})

\* C23: cleaning drops a row only for a listed reason: every input row
\* with open, high, low, close and volume non-null, open, high, low and
\* close > 0, adj_close missing or > 0, volume >= 0 and the five OHLC
\* inequalities is in the output of validate_and_clean_data, as often as it
\* is in the input, rows that share a timestamp with another row included.
C23_DroppedOnlyForReason ==
    Cleaned =>
        \A i \in 1..Len(input.rows) :
            NoReasonToDrop(input.rows[i]) =>
                Kept(output.rows, input.rows[i])
                    = Occurrences(input.rows, input.rows[i])

(***************************************************************************)
(* A failed write in fetch_historical_data (Spec)                          *)
(***************************************************************************)
\* a step of the batch in which a write of save_data_to_parquet failed
WriteFailed ==
    /\ Len(log') = Len(log) + 1
    /\ log'[Len(log')].failAt > 0

\* what the step of a failed write leaves: the series in the mapping, the
\* partitions of the years before the failing one with the rows of the
\* series, every other file as it was; atFree leaves open what is at the
\* path of the failing year
PartialWrite(atFree) ==
    LET e == log'[Len(log')]
        data == results'[e.symbol]
        years == SortedSeq(DistinctYears(data.rows))
        dir == save_dir(impl, cfg, batch[idx]) \o <<e.symbol>>
        before == {[dir |-> dir, symbol |-> e.symbol, year |-> years[k]]
                        : k \in 1..(e.failAt - 1)}
        at == [dir |-> dir, symbol |-> e.symbol, year |-> years[e.failAt]]
        AsItWas(f) ==
            IF f \in DOMAIN disk.files
            THEN f \in DOMAIN disk'.files /\ disk'.files[f] = disk.files[f]
            ELSE f \notin DOMAIN disk'.files
    IN  /\ e.symbol \in DOMAIN results'
        /\ data \in CleanOutcomes(e.fetched)
        /\ e.failAt <= Len(years)
        /\ \A f \in before :
            /\ f.year < at.year
            /\ f \in DOMAIN disk'.files
            /\ disk'.files[f].columns = data.columns
            /\ disk'.files[f].rows = RowsOfYear(data.rows, f.year)
        /\ \A f \in ((DOMAIN disk.files \cup DOMAIN disk'.files) \ before)
                        \ {at} : AsItWas(f)
        /\ IF atFree
           THEN AsItWas(at)
                    \/ (at \in DOMAIN disk'.files /\ disk'.files[at] = Truncated)
           ELSE AsItWas(at)

\* C24: a write goes year by year in ascending order and is not
\* all-or-nothing: when the write of a series fails at the partition of
\* year y, the partitions of the years before y hold the new rows, the
\* partitions of year y and of the later years are as they were before the
\* call, and the mapping returned by the batch has the whole series of the
\* symbol.
C24_PartialWrite == [][WriteFailed => PartialWrite(FALSE)]_vars

\* C24 as amended: the same, except that the partition of year y itself is
\* either as it was before the call or a truncated file left by the failed
\* write.
C24_PartialWriteAmended == [][WriteFailed => PartialWrite(TRUE)]_vars

\* AAPL fetched over a store that holds its partitions of 2022 and 2023:
\* the write of 2023 failed midway, the partition of 2022 has the new rows
C24_Witness ==
    /\ impl = "fetch_yahoo"
    /\ Len(log) >= 1
    /\ log[1].symbol = "AAPL"
    /\ log[1].failAt = 2
    /\ log[1].torn
    /\ LET dir == DEFAULT_CONFIG.output_dir \o <<"stocks", "AAPL">>
           f(y) == [dir |-> dir, symbol |-> "AAPL", year |-> y]
       IN  /\ f(EpochYear) \in DOMAIN disk.files
           /\ f(EpochYear) \in DOMAIN OldDisk.files
           /\ disk.files[f(EpochYear)] # OldDisk.files[f(EpochYear)]
           /\ disk.files[f(EpochYear)].rows
                = RowsOfYear(results["AAPL"].rows, EpochYear)
           /\ disk.files[f(EpochYear + 1)] = Truncated

(***************************************************************************)
(* Properties of pipeline.main (SpecPipeline)                              *)
(***************************************************************************)
\* the last time the symbol was processed, its partitions were written
\* without an I/O error
SavedWithoutFailure(symbol) ==
    \E i \in 1..Len(log) :
        /\ log[i].symbol = symbol
        /\ Succeeded(i)
        /\ log[i].failAt = 0
        /\ \A j \in (i + 1)..Len(log) : log[j].symbol # symbol

\* C21: the read of pipeline.main finds what the batch fetch wrote: for a
\* symbol of the returned mapping whose partitions were written without an
\* I/O error, load_data_from_parquet(symbol, determine_asset_type(symbol,
\* {}), output_dir) returns a table, with the rows of the symbol's series.
C21_ReadFindsWritten ==
    loaded.called /\ SavedWithoutFailure(loaded.symbol) =>
        /\ loaded.value # None
        /\ SameRows(loaded.value.rows, results[loaded.symbol].rows)

====
